---- MODULE Spec2Model ----
(***************************************************************************)
(* Hex world of src/src/main.rs: a player token that moves tile to tile    *)
(* with an eased animation, and chunks of tiles that are streamed in and   *)
(* out around the player's chunk.                                          *)
(*                                                                         *)
(* Units.  Times are in tenths of a second (move_duration 0.3 s = 3).      *)
(* A Vec3 is <<x, y, z>> of integers scaled by PosScale: x in world units, *)
(* y in multiples of sqrt(3) world units, z in tenths of a world unit.     *)
(* With that scaling hex_to_world and the smoothstep interpolation are     *)
(* exact integer arithmetic.                                               *)
(***************************************************************************)
EXTENDS Integers, Sequences, FiniteSets, Bags, TLC

HEX_RADIUS == 40
CHUNK_SIZE == 7
VIEW_DISTANCE == 2
\* move_duration: 0.3 (seconds), in tenths of a second
MOVE_DURATION == 3

\* The explored part of the infinite world: the strip of tiles with
\* -West <= q <= East and -South <= r <= 0.  The keyboard only delivers
\* presses whose candidate tile stays inside it.
West == 1
East == 7
South == 1
\* Geometry is also exercised with the player standing on any tile
\* (q, r) with |q|, |r| <= Far.
Far == 15
\* Largest per-tick elapsed time delivered (tenths of a second).
MaxDelta == 3
\* Largest number of keys with a press-edge in the same tick.
MaxKeys == 2
\* Asset-creation calls are counted up to MaxAssets and not told apart above.
MaxAssets == 4

VARIABLES
    phase,             \* "Startup" or "Update": the schedule being run
    done,              \* systems of that schedule that have run in this pass
    player_pos,        \* Resource PlayerPosition: <<q, r>>
    loaded_chunks,     \* Resource LoadedChunks.chunks: set of <<cq, cr>>
    players,           \* entities with Player: <<>> or <<[transform, sprite, movement]>>
    texts,             \* entities with ChunkDisplay: <<>> or <<text>>
    entities,          \* live entities carrying a Chunk component (bag of batches)
    commands,          \* deferred Commands queued in this schedule pass
    assets,            \* [meshes, materials]: calls of Assets::add so far
    pos_changed,       \* PlayerPosition changed since update_chunk_display last ran
    last_input,        \* what handle_input saw and did, if it was the latest step
    pass,              \* locals of manage_chunks, if it was the latest step
    moved_since_pass,  \* a move was accepted after the most recent pass
    prev_chunk,        \* the chunk the loaded set was last computed around
    scenario           \* k >= 0: exactly k accepted moves so far, all "east"; -1 otherwise

vars == <<phase, done, player_pos, loaded_chunks, players, texts, entities,
          commands, assets, pos_changed, last_input, pass, moved_since_pass,
          prev_chunk, scenario>>

----------------------------------------------------------------------------
\* Arithmetic helpers

Abs(x) == IF x < 0 THEN -x ELSE x

Min(a, b) == IF a < b THEN a ELSE b

\* The elements of S, enumerated (a HashSet holds its elements, not a rule)
SetOf(S) == { x : x \in S }

\* Rust's integer division: the quotient truncated toward zero (b > 0).
RustDiv(a, b) == IF a >= 0 THEN a \div b ELSE -((-a) \div b)

PosScale == MOVE_DURATION * MOVE_DURATION * MOVE_DURATION

\* Vec3::new(x, y, z) with z given in tenths
Vec3(xy, z10) == <<PosScale * xy[1], PosScale * xy[2], PosScale * z10>>

\* hex_to_world: x = R * 3/2 * q ; y = R * (sqrt3/2 * q + sqrt3 * r)
hex_to_world(q, r) ==
    <<(HEX_RADIUS * 3 * q) \div 2, (HEX_RADIUS * q) \div 2 + HEX_RADIUS * r>>

\* start.lerp(target, num/den)
Lerp(start, target, num, den) ==
    [i \in 1..3 |-> start[i] + ((target[i] - start[i]) * num) \div den]

----------------------------------------------------------------------------
\* Chunk geometry

\* "if p >= 0 { p / CHUNK_SIZE } else { (p - CHUNK_SIZE + 1) / CHUNK_SIZE }"
ChunkCoordTruncated(p) == RustDiv(p, CHUNK_SIZE)

ChunkCoordLate(p) == RustDiv(p - 1, CHUNK_SIZE)

ChunkCoord(p) ==
    IF p >= 0 THEN RustDiv(p, CHUNK_SIZE)
    ELSE RustDiv(p - CHUNK_SIZE + 1, CHUNK_SIZE)

PlayerChunk(pos) == <<ChunkCoord(pos[1]), ChunkCoord(pos[2])>>

\* The nested loops that collect the chunks to keep around (pcq, pcr)
RequiredChunksSquare(pcq, pcr) ==
    { c \in ((pcq - VIEW_DISTANCE)..(pcq + VIEW_DISTANCE))
              \X ((pcr - VIEW_DISTANCE)..(pcr + VIEW_DISTANCE)) :
        /\ Abs(c[1] - pcq) <= VIEW_DISTANCE
        /\ Abs(c[2] - pcr) <= VIEW_DISTANCE }

RequiredChunks(pcq, pcr) ==
    { c \in ((pcq - VIEW_DISTANCE)..(pcq + VIEW_DISTANCE))
              \X ((pcr - VIEW_DISTANCE)..(pcr + VIEW_DISTANCE)) :
        /\ Abs(c[1] - pcq) <= VIEW_DISTANCE
        /\ Abs(c[2] - pcr) <= VIEW_DISTANCE
        /\ Abs((c[1] - pcq) + (c[2] - pcr)) <= VIEW_DISTANCE }

\* chunks_to_unload: the loaded chunks that are not required
ChunksToUnloadNone(loaded, required) == {}

ChunksToUnloadEverything(loaded, required) == loaded

ChunksToUnloadRequired(loaded, required) == { c \in loaded : c \in required }

ChunksToUnload(loaded, required) == { c \in loaded : c \notin required }

\* the required chunks the loading loop finds absent from loaded_chunks
ChunksToLoadAll(loaded, required) == required

ChunksToLoad(loaded, required) == { c \in required : c \notin loaded }

\* The background entity has no HexTile component.
NoHexTile == <<>>

\* load_chunk: the components of the two entities it spawns for each of the
\* chunk's CHUNK_SIZE x CHUNK_SIZE tiles
load_chunk_local_tile(chunk_q, chunk_r) ==
    LET chunk_offset_q == chunk_q * CHUNK_SIZE
        chunk_offset_r == chunk_r * CHUNK_SIZE
        Locals == (0..(CHUNK_SIZE - 1)) \X (0..(CHUNK_SIZE - 1))
    IN  UNION { LET q == chunk_offset_q + l[1]
                    r == chunk_offset_r + l[2]
                IN  { [mesh |-> "hex", material |-> "border",
                       translation |-> Vec3(hex_to_world(q, r), -1),
                       hex_tile |-> NoHexTile,
                       chunk |-> <<chunk_q, chunk_r>>],
                      [mesh |-> "smaller_hex", material |-> "grass",
                       translation |-> Vec3(hex_to_world(q, r), 0),
                       hex_tile |-> <<l[1], l[2]>>,
                       chunk |-> <<chunk_q, chunk_r>>] } : l \in Locals }

load_chunk_inclusive(chunk_q, chunk_r) ==
    LET chunk_offset_q == chunk_q * CHUNK_SIZE
        chunk_offset_r == chunk_r * CHUNK_SIZE
        Locals == (0..CHUNK_SIZE) \X (0..CHUNK_SIZE)
    IN  UNION { LET q == chunk_offset_q + l[1]
                    r == chunk_offset_r + l[2]
                IN  { [mesh |-> "hex", material |-> "border",
                       translation |-> Vec3(hex_to_world(q, r), -1),
                       hex_tile |-> NoHexTile,
                       chunk |-> <<chunk_q, chunk_r>>],
                      [mesh |-> "smaller_hex", material |-> "grass",
                       translation |-> Vec3(hex_to_world(q, r), 0),
                       hex_tile |-> <<q, r>>,
                       chunk |-> <<chunk_q, chunk_r>>] } : l \in Locals }

load_chunk(chunk_q, chunk_r) ==
    LET chunk_offset_q == chunk_q * CHUNK_SIZE
        chunk_offset_r == chunk_r * CHUNK_SIZE
        Locals == (0..(CHUNK_SIZE - 1)) \X (0..(CHUNK_SIZE - 1))
    IN  UNION { LET q == chunk_offset_q + l[1]
                    r == chunk_offset_r + l[2]
                IN  { [mesh |-> "hex", material |-> "border",
                       translation |-> Vec3(hex_to_world(q, r), -1),
                       hex_tile |-> NoHexTile,
                       chunk |-> <<chunk_q, chunk_r>>],
                      [mesh |-> "smaller_hex", material |-> "grass",
                       translation |-> Vec3(hex_to_world(q, r), 0),
                       hex_tile |-> <<q, r>>,
                       chunk |-> <<chunk_q, chunk_r>>] } : l \in Locals }

\* Entities with a Chunk component enter the world only through load_chunk
\* and leave it only through the despawn of every entity with their tag,
\* so the world is held as a bag of load_chunk calls ("batches"): one copy
\* of <<cq, cr>> for each live set of entities load_chunk(cq, cr) spawned.
\* World expands it to the bag of the live entities themselves.
World(batches) ==
    [e \in UNION { load_chunk(c[1], c[2]) : c \in BagToSet(batches) } |->
        batches[e.chunk]]

\* The despawn commands of one chunk_query.iter() loop: every entity of
\* the world whose Chunk is (chunk_q, chunk_r)
DespawnChunk(batches, chunk) ==
    [c \in { x \in BagToSet(batches) : x[1] = chunk[1] /\ x[2] = chunk[2] } |->
        batches[c]]

RECURSIVE BagSum(_)
\* the commands of several loop iterations, one after the other
BagSum(bags) ==
    IF bags = {} THEN EmptyBag
    ELSE LET b == CHOOSE x \in bags : TRUE IN b (+) BagSum(bags \ {b})

----------------------------------------------------------------------------
\* Input and movement

Keys == {"KeyW", "KeyS", "KeyA", "KeyD", "KeyQ", "KeyE"}

InRegion(q, r) == /\ -West <= q /\ q <= East
                  /\ -South <= r /\ r <= 0

\* The if / else-if chain over keyboard_input.just_pressed: the candidate
\* tile, whether a key matched, and the sprite's facing flag.
InputResultSummed(keys, q, r, flip_x) ==
    LET dq == (IF "KeyD" \in keys THEN 1 ELSE 0) + (IF "KeyE" \in keys THEN 1 ELSE 0)
              - (IF "KeyA" \in keys THEN 1 ELSE 0) - (IF "KeyQ" \in keys THEN 1 ELSE 0)
        dr == (IF "KeyW" \in keys THEN 1 ELSE 0) + (IF "KeyQ" \in keys THEN 1 ELSE 0)
              - (IF "KeyS" \in keys THEN 1 ELSE 0) - (IF "KeyE" \in keys THEN 1 ELSE 0)
    IN  [new_q |-> q + dq, new_r |-> r + dr, moved |-> keys # {},
         flip_x |-> IF keys \cap {"KeyD", "KeyE"} # {} THEN TRUE
                    ELSE IF keys \cap {"KeyA", "KeyQ"} # {} THEN FALSE
                    ELSE flip_x]

InputResult(keys, q, r, flip_x) ==
    IF "KeyW" \in keys THEN
        [new_q |-> q, new_r |-> r + 1, moved |-> TRUE, flip_x |-> flip_x]
    ELSE IF "KeyS" \in keys THEN
        [new_q |-> q, new_r |-> r - 1, moved |-> TRUE, flip_x |-> flip_x]
    ELSE IF "KeyA" \in keys THEN
        [new_q |-> q - 1, new_r |-> r, moved |-> TRUE, flip_x |-> FALSE]
    ELSE IF "KeyD" \in keys THEN
        [new_q |-> q + 1, new_r |-> r, moved |-> TRUE, flip_x |-> TRUE]
    ELSE IF "KeyQ" \in keys THEN
        [new_q |-> q - 1, new_r |-> r + 1, moved |-> TRUE, flip_x |-> FALSE]
    ELSE IF "KeyE" \in keys THEN
        [new_q |-> q + 1, new_r |-> r - 1, moved |-> TRUE, flip_x |-> TRUE]
    ELSE
        [new_q |-> q, new_r |-> r, moved |-> FALSE, flip_x |-> flip_x]

is_valid_hex(q, r) == TRUE

\* "moved && is_valid_hex(new_q, new_r) && (new_q != player_pos.q || new_r != player_pos.r)"
MoveAcceptedAlways(moved, new_q, new_r, q, r) == is_valid_hex(new_q, new_r)

MoveAccepted(moved, new_q, new_r, q, r) ==
    /\ moved
    /\ is_valid_hex(new_q, new_r)
    /\ (new_q # q \/ new_r # r)

\* "if movement.is_moving { return; }"
InputLockedNever(movement) == FALSE

InputLocked(movement) == movement.is_moving

\* "Start movement animation": the four assignments to the PlayerMovement
StartMovementStaleTarget(movement, target_position) ==
    [movement EXCEPT !.start_position = movement.target_position,
                     !.move_timer = 0,
                     !.is_moving = TRUE]

StartMovementKeepsStart(movement, target_position) ==
    [movement EXCEPT !.target_position = target_position,
                     !.move_timer = 0,
                     !.is_moving = TRUE]

StartMovement(movement, target_position) ==
    [movement EXCEPT !.start_position = movement.target_position,
                     !.target_position = target_position,
                     !.move_timer = 0,
                     !.is_moving = TRUE]

\* The body of animate_player_movement for a player with is_moving set
AnimateMovingLateCompletion(player, delta) ==
    LET movement == player.movement
        move_timer == movement.move_timer + delta
        duration == movement.move_duration
    IN  IF move_timer > duration THEN
            [player EXCEPT !.transform = movement.target_position,
                           !.movement = [movement EXCEPT !.is_moving = FALSE,
                                                         !.move_timer = 0]]
        ELSE
            [player EXCEPT !.transform =
                               Lerp(movement.start_position, movement.target_position,
                                    move_timer * move_timer * (3 * duration - 2 * move_timer),
                                    duration * duration * duration),
                           !.movement = [movement EXCEPT !.move_timer = move_timer]]

AnimateMovingKeepsTimer(player, delta) ==
    LET movement == player.movement
        move_timer == movement.move_timer + delta
        duration == movement.move_duration
    IN  IF move_timer >= duration THEN
            [player EXCEPT !.transform = movement.target_position,
                           !.movement = [movement EXCEPT !.is_moving = FALSE,
                                                         !.move_timer = move_timer]]
        ELSE
            [player EXCEPT !.transform =
                               Lerp(movement.start_position, movement.target_position,
                                    move_timer * move_timer * (3 * duration - 2 * move_timer),
                                    duration * duration * duration),
                           !.movement = [movement EXCEPT !.move_timer = move_timer]]

AnimateMovingNoSnap(player, delta) ==
    LET movement == player.movement
        move_timer == movement.move_timer + delta
        duration == movement.move_duration
    IN  IF move_timer >= duration THEN
            [player EXCEPT !.movement = [movement EXCEPT !.is_moving = FALSE,
                                                         !.move_timer = 0]]
        ELSE
            [player EXCEPT !.transform =
                               Lerp(movement.start_position, movement.target_position,
                                    move_timer * move_timer * (3 * duration - 2 * move_timer),
                                    duration * duration * duration),
                           !.movement = [movement EXCEPT !.move_timer = move_timer]]

AnimateMoving(player, delta) ==
    LET movement == player.movement
        move_timer == movement.move_timer + delta
        duration == movement.move_duration
    IN  IF move_timer >= duration THEN
            [player EXCEPT !.transform = movement.target_position,
                           !.movement = [movement EXCEPT !.is_moving = FALSE,
                                                         !.move_timer = 0]]
        ELSE
            \* t = move_timer / move_duration ; smooth_t = t * t * (3 - 2 t)
            [player EXCEPT !.transform =
                               Lerp(movement.start_position, movement.target_position,
                                    move_timer * move_timer * (3 * duration - 2 * move_timer),
                                    duration * duration * duration),
                           !.movement = [movement EXCEPT !.move_timer = move_timer]]

\* "Chunk: ({}, {})"
FormatChunk(cq, cr) == <<"Chunk: (", cq, ", ", cr, ")">>

----------------------------------------------------------------------------
\* The schedules.  main adds the systems of a schedule as a plain tuple
\* (no .chain(), no .before/.after), so within one pass of the schedule
\* they run once each in an order the scheduler is free to choose; their
\* Commands are applied together when the pass ends.

StartupSystems == {"spawn_player", "load_initial_chunks", "setup_ui"}

UpdateSystems == {"handle_input", "animate_player_movement", "manage_chunks",
                  "update_chunk_display"}

SystemsOf(p) == IF p = "Startup" THEN StartupSystems ELSE UpdateSystems

NoCommands ==
    [spawn_player |-> <<>>, spawn_text |-> <<>>, spawn |-> EmptyBag, despawn |-> EmptyBag]

NoInput == [ran |-> FALSE, was_moving |-> FALSE, pressed |-> 0, accepted |-> FALSE]

\* No chunk yet: nothing has been loaded
NoChunk == <<>>

NoPass == [ran |-> FALSE, after_move |-> FALSE, loaded_before |-> {},
           prev_chunk |-> NoChunk, player_chunk |-> <<0, 0>>, required |-> {},
           to_unload |-> {}, to_load |-> {}]

\* The scenario "east, CHUNK_SIZE times over"
EastPresses == CHUNK_SIZE

\* Assets::add, called n times
AddAssets(count, n) == Min(count + n, MaxAssets)

\* main: the resources inserted before the Startup schedule runs
Init ==
    /\ phase = "Startup"
    /\ done = {}
    /\ player_pos = <<0, 0>>
    /\ loaded_chunks = {}
    /\ players = <<>>
    /\ texts = <<>>
    /\ entities = EmptyBag
    /\ commands = NoCommands
    /\ assets = [meshes |-> 0, materials |-> 0]
    /\ pos_changed = TRUE
    /\ last_input = NoInput
    /\ pass = NoPass
    /\ moved_since_pass = FALSE
    /\ prev_chunk = NoChunk
    /\ scenario = 0

Runs(system) ==
    /\ system \in SystemsOf(phase)
    /\ system \notin done
    /\ done' = done \cup {system}
    /\ phase' = phase

spawn_player ==
    /\ Runs("spawn_player")
    /\ LET position == Vec3(hex_to_world(0, 0), 10)
       IN  commands' =
             [commands EXCEPT !.spawn_player =
                Append(@, [transform |-> position,
                           sprite |-> [flip_x |-> FALSE],
                           movement |-> [target_position |-> position,
                                         start_position |-> position,
                                         move_timer |-> 0,
                                         move_duration |-> MOVE_DURATION,
                                         is_moving |-> FALSE]])]
    /\ last_input' = NoInput
    /\ pass' = NoPass
    /\ UNCHANGED prev_chunk
    /\ UNCHANGED <<player_pos, loaded_chunks, players, texts, entities, assets,
                   pos_changed, moved_since_pass, scenario>>

load_initial_chunks ==
    /\ Runs("load_initial_chunks")
    /\ LET initial == RequiredChunks(0, 0)
       IN  /\ commands' =
                [commands EXCEPT !.spawn =
                    @ (+) BagSum({ SetToBag({c}) : c \in initial })]
           /\ loaded_chunks' = SetOf(loaded_chunks \cup initial)
    /\ prev_chunk' = <<0, 0>>
    /\ assets' = [meshes |-> AddAssets(assets.meshes, 2),
                  materials |-> AddAssets(assets.materials, 2)]
    /\ last_input' = NoInput
    /\ pass' = NoPass
    /\ UNCHANGED <<player_pos, players, texts, entities, pos_changed,
                   moved_since_pass, scenario>>

setup_ui ==
    /\ Runs("setup_ui")
    /\ commands' = [commands EXCEPT !.spawn_text = Append(@, FormatChunk(0, 0))]
    /\ last_input' = NoInput
    /\ pass' = NoPass
    /\ UNCHANGED prev_chunk
    /\ UNCHANGED <<player_pos, loaded_chunks, players, texts, entities, assets,
                   pos_changed, moved_since_pass, scenario>>

\* handle_input in a tick whose press-edges are keys
HandleInputKeys(keys) ==
    /\ Runs("handle_input")
    /\ IF Len(players) # 1 THEN
           /\ last_input' = [NoInput EXCEPT !.ran = TRUE]
           /\ UNCHANGED <<player_pos, players, pos_changed, moved_since_pass, scenario>>
       ELSE IF InputLocked(players[1].movement) THEN
           /\ last_input' = [ran |-> TRUE, was_moving |-> TRUE,
                             pressed |-> Min(Cardinality(keys), 2),
                             accepted |-> FALSE]
           /\ scenario' = IF keys = {} THEN scenario ELSE -1
           /\ UNCHANGED <<player_pos, players, pos_changed, moved_since_pass>>
       ELSE
           LET res == InputResult(keys, player_pos[1], player_pos[2],
                                  players[1].sprite.flip_x)
               accepted == MoveAccepted(res.moved, res.new_q, res.new_r,
                                        player_pos[1], player_pos[2])
               faced == [players[1] EXCEPT !.sprite.flip_x = res.flip_x]
           IN  /\ InRegion(res.new_q, res.new_r)
               /\ IF accepted THEN
                      /\ player_pos' = <<res.new_q, res.new_r>>
                      /\ players' =
                           <<[faced EXCEPT !.movement =
                                StartMovement(players[1].movement,
                                    Vec3(hex_to_world(res.new_q, res.new_r), 10))]>>
                      /\ pos_changed' = TRUE
                      /\ moved_since_pass' = TRUE
                  ELSE
                      /\ players' = <<faced>>
                      /\ UNCHANGED <<player_pos, pos_changed, moved_since_pass>>
               /\ last_input' = [ran |-> TRUE, was_moving |-> FALSE,
                                 pressed |-> Min(Cardinality(keys), 2),
                                 accepted |-> accepted]
               /\ scenario' = IF keys = {} THEN scenario
                              ELSE IF /\ keys = {"KeyD"}
                                      /\ scenario >= 0
                                      /\ scenario < EastPresses
                                   THEN scenario + 1
                              ELSE -1
    /\ pass' = NoPass
    /\ UNCHANGED prev_chunk
    /\ UNCHANGED <<loaded_chunks, texts, entities, commands, assets>>

\* The press-edges one tick can deliver: at most MaxKeys keys at once
KeySets == { keys \in SUBSET Keys : Cardinality(keys) <= MaxKeys }

handle_input == \E keys \in KeySets : HandleInputKeys(keys)

\* animate_player_movement in a tick whose time.delta_secs() is delta
AnimateDelta(delta) ==
    /\ Runs("animate_player_movement")
    /\ IF Len(players) = 1 /\ players[1].movement.is_moving
       THEN players' = <<AnimateMoving(players[1], delta)>>
       ELSE UNCHANGED players
    /\ last_input' = NoInput
    /\ pass' = NoPass
    /\ UNCHANGED prev_chunk
    /\ UNCHANGED <<player_pos, loaded_chunks, texts, entities, commands, assets,
                   pos_changed, moved_since_pass, scenario>>

animate_player_movement == \E delta \in 0..MaxDelta : AnimateDelta(delta)

manage_chunks ==
    /\ Runs("manage_chunks")
    /\ LET player_chunk == PlayerChunk(player_pos)
           required_chunks == RequiredChunks(player_chunk[1], player_chunk[2])
           chunks_to_unload == ChunksToUnload(loaded_chunks, required_chunks)
           despawned == BagSum({ DespawnChunk(entities, c) : c \in chunks_to_unload })
           after_unload == loaded_chunks \ chunks_to_unload
           chunks_to_load == ChunksToLoad(after_unload, required_chunks)
       IN  /\ commands' =
                [commands EXCEPT
                    !.despawn = @ (+) despawned,
                    !.spawn = @ (+) BagSum({ SetToBag({c}) : c \in chunks_to_load })]
           /\ loaded_chunks' = SetOf(after_unload \cup chunks_to_load)
           /\ pass' = [ran |-> TRUE, after_move |-> moved_since_pass,
                       loaded_before |-> loaded_chunks,
                       prev_chunk |-> prev_chunk,
                       player_chunk |-> player_chunk,
                       required |-> SetOf(required_chunks),
                       to_unload |-> SetOf(chunks_to_unload),
                       to_load |-> SetOf(chunks_to_load)]
           /\ prev_chunk' = player_chunk
    /\ assets' = [meshes |-> AddAssets(assets.meshes, 2),
                  materials |-> AddAssets(assets.materials, 2)]
    /\ moved_since_pass' = FALSE
    /\ last_input' = NoInput
    /\ UNCHANGED <<player_pos, players, texts, entities, pos_changed, scenario>>

update_chunk_display ==
    /\ Runs("update_chunk_display")
    /\ IF pos_changed /\ Len(texts) = 1
       THEN texts' = <<FormatChunk(ChunkCoord(player_pos[1]), ChunkCoord(player_pos[2]))>>
       ELSE UNCHANGED texts
    /\ pos_changed' = FALSE
    /\ last_input' = NoInput
    /\ pass' = NoPass
    /\ UNCHANGED prev_chunk
    /\ UNCHANGED <<player_pos, loaded_chunks, players, entities, commands, assets,
                   moved_since_pass, scenario>>

\* The end of a schedule pass: the queued commands take effect, and the
\* next pass is an Update.
ApplyDeferred ==
    /\ done = SystemsOf(phase)
    /\ phase' = "Update"
    /\ done' = {}
    /\ players' = players \o commands.spawn_player
    /\ texts' = texts \o commands.spawn_text
    /\ entities' = (entities (-) commands.despawn) (+) commands.spawn
    /\ commands' = NoCommands
    /\ last_input' = NoInput
    /\ pass' = NoPass
    /\ UNCHANGED prev_chunk
    /\ UNCHANGED <<player_pos, loaded_chunks, assets, pos_changed,
                   moved_since_pass, scenario>>

Next ==
    \/ spawn_player
    \/ load_initial_chunks
    \/ setup_ui
    \/ handle_input
    \/ animate_player_movement
    \/ manage_chunks
    \/ update_chunk_display
    \/ ApplyDeferred

Spec == Init /\ [][Next]_vars

----------------------------------------------------------------------------
\* The running application.  The app runner keeps running the Update
\* schedule, tick after tick: every system of a schedule that has not run
\* in the current pass gets to run, and the pass then ends.  Here every
\* tick delivers a positive time.delta_secs().

animate_player_movement_positive == \E delta \in 1..MaxDelta : AnimateDelta(delta)

LiveNext ==
    \/ spawn_player
    \/ load_initial_chunks
    \/ setup_ui
    \/ handle_input
    \/ animate_player_movement_positive
    \/ manage_chunks
    \/ update_chunk_display
    \/ ApplyDeferred

LiveSpec ==
    /\ Init /\ [][LiveNext]_vars
    /\ \A system \in StartupSystems \cup UpdateSystems : WF_done(Runs(system))
    /\ WF_vars(ApplyDeferred)

----------------------------------------------------------------------------
\* The geometry, with the player on any tile within Far of the origin.
\* A start state is the end of a tick in which update_chunk_display ran,
\* then handle_input accepted a move east onto (q, r), then the animation
\* completed at once (delta >= move_duration) and manage_chunks ran.

StandingOn(q, r) ==
    /\ phase = "Update"
    /\ done = {}
    /\ player_pos = <<q, r>>
    /\ loaded_chunks = SetOf(RequiredChunks(ChunkCoord(q), ChunkCoord(r)))
    /\ players = <<[transform |-> Vec3(hex_to_world(q, r), 10),
                    sprite |-> [flip_x |-> TRUE],
                    movement |-> [target_position |-> Vec3(hex_to_world(q, r), 10),
                                  start_position |-> Vec3(hex_to_world(q - 1, r), 10),
                                  move_timer |-> 0,
                                  move_duration |-> MOVE_DURATION,
                                  is_moving |-> FALSE]]>>
    /\ texts = <<FormatChunk(ChunkCoord(q - 1), ChunkCoord(r))>>
    /\ entities = SetToBag(SetOf(RequiredChunks(ChunkCoord(q), ChunkCoord(r))))
    /\ commands = NoCommands
    /\ assets = [meshes |-> MaxAssets, materials |-> MaxAssets]
    /\ pos_changed = TRUE
    /\ last_input = NoInput
    /\ pass = NoPass
    /\ moved_since_pass = FALSE
    /\ prev_chunk = PlayerChunk(<<q, r>>)
    /\ scenario = -1

GeometryInit ==
    \/ Init
    \/ \E q \in (-Far)..Far, r \in (-Far)..Far : StandingOn(q, r)

GeometryNext ==
    \/ spawn_player
    \/ load_initial_chunks
    \/ setup_ui
    \/ ApplyDeferred
    \/ manage_chunks
    \/ update_chunk_display

GeometrySpec == GeometryInit /\ [][GeometryNext]_vars

----------------------------------------------------------------------------
\* Vocabulary of the properties

\* floor(p / CHUNK_SIZE), rounded toward negative infinity
FloorDiv(p) == p \div CHUNK_SIZE

FloorChunk(tile) == <<FloorDiv(tile[1]), FloorDiv(tile[2])>>

Max3(a, b, c) == IF a >= b /\ a >= c THEN a ELSE IF b >= c THEN b ELSE c

\* Hex distance between two axial coordinates
HexDistance(a, b) ==
    Max3(Abs(a[1] - b[1]), Abs(a[2] - b[2]), Abs((a[1] - b[1]) + (a[2] - b[2])))

\* The chunks around centre that are looked at: wider than any view
Window(centre) ==
    ((centre[1] - VIEW_DISTANCE - 2)..(centre[1] + VIEW_DISTANCE + 2))
        \X ((centre[2] - VIEW_DISTANCE - 2)..(centre[2] + VIEW_DISTANCE + 2))

\* The hex ball of radius VIEW_DISTANCE around a chunk
HexBall(centre) ==
    { c \in Window(centre) : HexDistance(c, centre) <= VIEW_DISTANCE }

\* The six directions in priority order, with their keys and axial offsets
PriorityOrder == <<"KeyW", "KeyS", "KeyA", "KeyD", "KeyQ", "KeyE">>

KeyOffset ==
    [k \in Keys |->
        CASE k = "KeyW" -> <<0, 1>>
          [] k = "KeyS" -> <<0, -1>>
          [] k = "KeyA" -> <<-1, 0>>
          [] k = "KeyD" -> <<1, 0>>
          [] k = "KeyQ" -> <<-1, 1>>
          [] k = "KeyE" -> <<1, -1>>]

NeighborOffsets == { KeyOffset[k] : k \in Keys }

\* The key that wins among the pressed ones (keys # {})
FirstPressed(keys) ==
    PriorityOrder[CHOOSE i \in 1..Len(PriorityOrder) :
                     /\ PriorityOrder[i] \in keys
                     /\ \A j \in 1..(i - 1) : PriorityOrder[j] \notin keys]

Plus(tile, offset) == <<tile[1] + offset[1], tile[2] + offset[2]>>

\* A step of the named system
StepOf(system) == system \notin done /\ system \in done'

\* The end of a tick: every command of the tick has taken effect
TickBoundary == phase = "Update" /\ done = {}

HasPlayer == Len(players) = 1

\* Every chunk index a pass can touch with the player within Far
ChunkUniverse ==
    LET lo == FloorDiv(-Far - 2) - VIEW_DISTANCE - 1
        hi == FloorDiv(Far + 2) + VIEW_DISTANCE + 1
    IN  (lo..hi) \X (lo..hi)

\* For each chunk index b: the Chunk tags carried by the entities
\* load_chunk(b) spawns, and the number of those entities
BatchTable ==
    { <<b, { e.chunk : e \in load_chunk(b[1], b[2]) },
        Cardinality(load_chunk(b[1], b[2]))>> : b \in ChunkUniverse }

BatchRow(b) == CHOOSE row \in BatchTable : row[1] = b

BatchTags(b) == BatchRow(b)[2]

BatchSize(b) == BatchRow(b)[3]

\* The Chunk tags carried by the live entities
LiveTags == UNION { BatchTags(b) : b \in BagToSet(entities) }

Movement == players[1].movement

----------------------------------------------------------------------------
\* C1: the first manage_chunks pass to complete after an accepted move
\* leaves LoadedChunks.chunks exactly the hex ball of radius VIEW_DISTANCE
\* around the floor-division chunk of the player's logical tile.
C1_LoadedConvergesAfterMove ==
    (pass.ran /\ pass.after_move) =>
        loaded_chunks = HexBall(FloorChunk(player_pos))

\* a pass after a move that crossed into a chunk with a negative index and
\* streamed chunks in and out
C1_Witness ==
    /\ pass.ran /\ pass.after_move
    /\ player_pos[1] < 0 /\ player_pos[2] < 0
    /\ pass.to_load # {} /\ pass.to_unload # {}

\* C2: at the end of every tick and after startup, the chunks of
\* LoadedChunks.chunks are exactly the Chunk tags of the live entities, and
\* each loaded chunk owns exactly one copy of the entities load_chunk
\* spawns for it.
C2_LoadedMirrorsEntities ==
    TickBoundary =>
        /\ LiveTags = loaded_chunks
        /\ \A b \in BagToSet(entities) : entities[b] = 1
        /\ \A c \in loaded_chunks :
             /\ { b \in BagToSet(entities) : c \in BatchTags(b) } = {c}
             /\ BatchSize(c) = 2 * CHUNK_SIZE * CHUNK_SIZE

\* the end of a tick after chunks west of the start were streamed in and
\* chunks east of it were streamed out
C2_Witness ==
    /\ TickBoundary
    /\ <<-3, 0>> \in loaded_chunks
    /\ <<2, 0>> \notin loaded_chunks
    /\ BagCardinality(entities) = Cardinality(loaded_chunks)

\* C3: a handle_input run while is_moving is true changes nothing, whatever
\* keys are pressed: logical tile, PlayerMovement, transform and facing flag
\* stay as they are, and nothing else of the program's state records the press.
C3_MovementLock ==
    [][(StepOf("handle_input") /\ HasPlayer /\ Movement.is_moving) =>
          UNCHANGED <<player_pos, players, loaded_chunks, texts, entities,
                      commands, assets, pos_changed, moved_since_pass>>]_vars

\* handle_input has just run with keys pressed while the player was moving
C3_Witness ==
    /\ last_input.ran /\ last_input.was_moving /\ last_input.pressed >= 1
    /\ HasPlayer /\ Movement.is_moving

\* C4: after exactly CHUNK_SIZE = 7 presses of "east" from the initial state,
\* each accepted while idle, the logical tile is (7, 0), the player's chunk
\* is (1, 0), and once a manage_chunks pass has run after the last press the
\* loaded set is exactly the hex ball of radius 2 around (1, 0).
C4_SevenEast ==
    scenario = EastPresses =>
        /\ player_pos = <<7, 0>>
        /\ pass.ran => pass.player_chunk = <<1, 0>>
        /\ ~moved_since_pass =>
               /\ loaded_chunks = HexBall(<<1, 0>>)
               /\ Cardinality(loaded_chunks) = 19
        /\ ~pos_changed => texts = <<FormatChunk(1, 0)>>

\* the seventh animation has completed and the chunks have been streamed
C4_Witness ==
    /\ scenario = EastPresses
    /\ ~moved_since_pass /\ ~pos_changed
    /\ ~Movement.is_moving
    /\ players[1].transform = Movement.target_position
    /\ TickBoundary

\* C5: in every manage_chunks pass, with L the loaded set on entry and R the
\* required set, (L \ to_unload) \cup to_load = R, to_load and L are
\* disjoint, and to_unload and R are disjoint.
C5_DiffLaws ==
    pass.ran =>
        /\ (pass.loaded_before \ pass.to_unload) \cup pass.to_load = pass.required
        /\ pass.to_load \cap pass.loaded_before = {}
        /\ pass.to_unload \cap pass.required = {}

\* a pass that both unloads and loads
C5_Witness ==
    /\ pass.ran
    /\ pass.to_unload # {} /\ pass.to_load # {}
    /\ pass.loaded_before \cap pass.required # {}

\* C6: the required set of a manage_chunks pass with player chunk (pcq, pcr),
\* and the set load_initial_chunks builds for (0, 0), is exactly the set of
\* (cq, cr) with |cq - pcq| <= D, |cr - pcr| <= D and
\* |(cq - pcq) + (cr - pcr)| <= D: the hex ball, not the square, and it
\* contains the player's chunk.
C6_RequiredIsHexBall ==
    /\ pass.ran =>
         /\ \A c \in Window(pass.player_chunk) :
              c \in pass.required <=>
                 /\ Abs(c[1] - pass.player_chunk[1]) <= VIEW_DISTANCE
                 /\ Abs(c[2] - pass.player_chunk[2]) <= VIEW_DISTANCE
                 /\ Abs((c[1] - pass.player_chunk[1]) + (c[2] - pass.player_chunk[2]))
                        <= VIEW_DISTANCE
         /\ pass.required \subseteq Window(pass.player_chunk)
         /\ pass.player_chunk \in pass.required
         /\ <<pass.player_chunk[1] + VIEW_DISTANCE, pass.player_chunk[2] + VIEW_DISTANCE>>
                \notin pass.required
    /\ (phase = "Startup" /\ "load_initial_chunks" \in done) =>
         loaded_chunks = HexBall(<<0, 0>>)

\* a pass for a player chunk with negative indices away from the origin
C6_Witness ==
    /\ pass.ran
    /\ pass.player_chunk = <<-2, -3>>
    /\ <<-4, -1>> \in pass.required
    /\ <<-4, -5>> \notin pass.required

\* C7: the chunk index manage_chunks and update_chunk_display derive from a
\* tile coordinate is floor(coordinate / CHUNK_SIZE), for negative
\* coordinates too (-1 -> -1, -7 -> -1, -8 -> -2, 6 -> 0, 7 -> 1).
C7_ChunkIsFloor ==
    /\ pass.ran =>
         /\ pass.player_chunk = FloorChunk(player_pos)
         /\ \A i \in 1..2 :
              /\ pass.player_chunk[i] * CHUNK_SIZE <= player_pos[i]
              /\ player_pos[i] < (pass.player_chunk[i] + 1) * CHUNK_SIZE
    /\ ("update_chunk_display" \in done /\ ~pos_changed /\ Len(texts) = 1) =>
         texts[1] = FormatChunk(FloorDiv(player_pos[1]), FloorDiv(player_pos[2]))
    /\ pass.ran =>
         /\ player_pos[1] = -1 => pass.player_chunk[1] = -1
         /\ player_pos[1] = -7 => pass.player_chunk[1] = -1
         /\ player_pos[1] = -8 => pass.player_chunk[1] = -2
         /\ player_pos[2] = 6 => pass.player_chunk[2] = 0
         /\ player_pos[2] = 7 => pass.player_chunk[2] = 1

\* both systems have derived the chunk of a tile with q = -8 and r = -1
C7_Witness ==
    /\ pass.ran /\ "update_chunk_display" \in done
    /\ player_pos = <<-8, -1>>
    /\ pass.player_chunk = <<-2, -1>>
    /\ texts = <<FormatChunk(-2, -1)>>

\* C8: a handle_input run while idle in a tick with no press-edge of a
\* mapped key (the candidate tile is the current tile) is rejected:
\* PlayerMovement and the logical tile are unchanged; a run while idle with a
\* press-edge (the candidate is a neighbour) is accepted: is_moving becomes
\* true and the logical tile changes.
C8_SameTileRejected ==
    [][(StepOf("handle_input") /\ HasPlayer /\ ~Movement.is_moving) =>
          IF last_input'.pressed = 0
          THEN /\ players'[1].movement = Movement
               /\ ~players'[1].movement.is_moving
               /\ player_pos' = player_pos
          ELSE /\ players'[1].movement.is_moving
               /\ players'[1].movement.move_timer = 0
               /\ player_pos' # player_pos]_vars

\* handle_input has just run for an idle player with no key pressed
C8_Witness ==
    /\ last_input.ran /\ ~last_input.was_moving
    /\ last_input.pressed = 0 /\ ~last_input.accepted
    /\ HasPlayer /\ ~Movement.is_moving
    /\ player_pos # <<0, 0>>

\* C9: the logical tile changes only in a handle_input step of an idle
\* player, by the axial offset of one of the six directions (hex distance
\* exactly 1), and that same step sets is_moving = true, move_timer = 0 and
\* target_position = hex_to_world(new tile); conversely the step that sets
\* is_moving changes the logical tile.
C9_TileChangesAtAcceptance ==
    [][/\ player_pos' # player_pos =>
            /\ StepOf("handle_input")
            /\ ~Movement.is_moving
            /\ \E d \in NeighborOffsets : player_pos' = Plus(player_pos, d)
            /\ HexDistance(player_pos', player_pos) = 1
            /\ players'[1].movement.is_moving
            /\ players'[1].movement.move_timer = 0
            /\ players'[1].movement.target_position =
                   Vec3(hex_to_world(player_pos'[1], player_pos'[2]), 10)
       /\ (HasPlayer /\ ~Movement.is_moving /\ players'[1].movement.is_moving) =>
            player_pos' # player_pos]_vars

\* a move has just been accepted and its animation has not advanced yet
C9_Witness ==
    /\ last_input.ran /\ last_input.accepted
    /\ HasPlayer /\ Movement.is_moving /\ Movement.move_timer = 0
    /\ players[1].transform = Movement.start_position
    /\ Movement.target_position # Movement.start_position

\* C10: a handle_input run while idle moves the logical tile by the offset
\* of exactly one direction, the first pressed key in the order W (0,+1),
\* S (0,-1), A (-1,0), D (+1,0), Q (-1,+1), E (+1,-1), however many keys
\* have a press-edge in the tick.
C10_FirstKeyWins ==
    [][(StepOf("handle_input") /\ HasPlayer /\ ~Movement.is_moving) =>
        \A keys \in KeySets \ {{}} :
          HandleInputKeys(keys) =>
              player_pos' = Plus(player_pos, KeyOffset[FirstPressed(keys)])]_vars

\* a move has just been accepted in a tick with more than one press-edge
C10_Witness ==
    /\ last_input.ran /\ last_input.accepted /\ last_input.pressed >= 2

\* C11: a run of animate_player_movement while is_moving is true, in a tick
\* whose elapsed time is delta: if move_timer + delta >= move_duration the
\* player becomes idle (is_moving = false), the transform is exactly
\* target_position and move_timer is 0; if it is smaller the player stays
\* moving, move_timer has grown by delta, and target_position and
\* start_position are unchanged.
C11_AnimationCompletes ==
    [][(StepOf("animate_player_movement") /\ HasPlayer /\ Movement.is_moving) =>
        \A delta \in 0..MaxDelta :
          AnimateDelta(delta) =>
            IF Movement.move_timer + delta >= Movement.move_duration
            THEN /\ ~players'[1].movement.is_moving
                 /\ players'[1].transform = Movement.target_position
                 /\ players'[1].movement.move_timer = 0
                 /\ players'[1].movement.target_position = Movement.target_position
            ELSE /\ players'[1].movement.is_moving
                 /\ players'[1].movement.move_timer = Movement.move_timer + delta
                 /\ players'[1].movement.target_position = Movement.target_position
                 /\ players'[1].movement.start_position = Movement.start_position]_vars

\* an animation has just completed on a tick that brought the accumulated
\* time to move_duration or beyond: the player is idle on its target, away
\* from where it started, with the timer back at 0
C11_Witness ==
    /\ "animate_player_movement" \in done
    /\ HasPlayer /\ ~Movement.is_moving
    /\ Movement.move_timer = 0
    /\ players[1].transform = Movement.target_position
    /\ Movement.target_position # Movement.start_position
    /\ "handle_input" \notin done

\* C12: in every tick the systems run in the fixed order handle_input, then
\* animate_player_movement, then manage_chunks; hence the manage_chunks pass
\* of the tick in which a move is accepted already uses the new logical
\* tile, and no tick ends with an accepted move that no pass has seen.
C12_FixedSystemOrder ==
    /\ phase = "Update" =>
          /\ "animate_player_movement" \in done => "handle_input" \in done
          /\ "manage_chunks" \in done => "animate_player_movement" \in done
    /\ TickBoundary => ~moved_since_pass

\* C13: on every accepted move the recorded start_position equals the
\* player's visual position (the transform's translation) at the moment of
\* acceptance, and the acceptance itself does not move the visual, so the
\* interpolation starts where the player is drawn.
C13_StartIsVisualPosition ==
    [][(StepOf("handle_input") /\ HasPlayer /\ ~Movement.is_moving
            /\ players'[1].movement.is_moving) =>
          /\ players'[1].movement.start_position = players[1].transform
          /\ players'[1].transform = players[1].transform]_vars

\* a move has just been accepted by a player standing away from the tile
\* it was spawned on, so an earlier move had left its own start and target
C13_Witness ==
    /\ last_input.ran /\ last_input.accepted
    /\ HasPlayer /\ Movement.is_moving
    /\ Movement.start_position = players[1].transform
    /\ Movement.start_position # Vec3(hex_to_world(0, 0), 10)

\* C14: every accepted move completes: once is_moving is true it eventually
\* becomes false again, given that ticks keep occurring and deliver positive
\* elapsed time; and a handle_input run during the animation leaves the
\* player's movement, transform and facing as they are, so no input cancels,
\* restarts or prolongs it.
C14_MoveCompletes ==
    /\ (HasPlayer /\ Movement.is_moving) ~> (HasPlayer /\ ~Movement.is_moving)
    /\ [][(StepOf("handle_input") /\ HasPlayer /\ Movement.is_moving) =>
             players' = players]_vars

\* an animation that keys were pressed into has advanced and not yet
\* completed: handle_input has just run in Moving with a key pressed
C14_Witness ==
    /\ HasPlayer /\ Movement.is_moving
    /\ Movement.move_timer = MOVE_DURATION - 1
    /\ last_input.ran /\ last_input.was_moving /\ last_input.pressed >= 1

\* C15: move_timer is 0 whenever is_moving is false; it is 0 right after a
\* move is accepted; it does not change in a step that starts and ends with
\* is_moving false; it never decreases from one step of a move to the next;
\* and while is_moving is true (at the end of a tick as at any other
\* moment) 0 <= move_timer < move_duration.
C15_TimerInvariants ==
    /\ [](HasPlayer =>
            /\ ~Movement.is_moving => Movement.move_timer = 0
            /\ Movement.is_moving =>
                  /\ 0 <= Movement.move_timer
                  /\ Movement.move_timer < Movement.move_duration)
    /\ [][HasPlayer =>
            /\ (~Movement.is_moving /\ players'[1].movement.is_moving) =>
                  players'[1].movement.move_timer = 0
            /\ (~Movement.is_moving /\ ~players'[1].movement.is_moving) =>
                  players'[1].movement.move_timer = Movement.move_timer
            /\ (Movement.is_moving /\ players'[1].movement.is_moving) =>
                  players'[1].movement.move_timer >= Movement.move_timer]_vars

\* the end of a tick with the animation one tenth short of completing
C15_Witness ==
    /\ TickBoundary
    /\ HasPlayer /\ Movement.is_moving
    /\ Movement.move_timer = Movement.move_duration - 1

\* The tiles of chunk b: offset b * CHUNK_SIZE, local 0..CHUNK_SIZE-1 on
\* both axes
ChunkTiles(b) ==
    ((b[1] * CHUNK_SIZE)..(b[1] * CHUNK_SIZE + CHUNK_SIZE - 1))
        \X ((b[2] * CHUNK_SIZE)..(b[2] * CHUNK_SIZE + CHUNK_SIZE - 1))

\* The visuals among ents that are drawn at the world position of tile t
VisualsAt(ents, t) ==
    { e \in ents : /\ e.translation[1] = Vec3(hex_to_world(t[1], t[2]), 0)[1]
                   /\ e.translation[2] = Vec3(hex_to_world(t[1], t[2]), 0)[2] }

\* load_chunk(b) places nothing but, for each tile of b, a background cell
\* and an inset fill above it
TwoVisualsPerTile(b) ==
    LET ents == load_chunk(b[1], b[2])
    IN  /\ Cardinality(ents) = 2 * CHUNK_SIZE * CHUNK_SIZE
        /\ \A t \in ChunkTiles(b) :
              LET at == VisualsAt(ents, t)
              IN  /\ Cardinality(at) = 2
                  /\ \E bg \in at, fill \in at :
                        /\ bg.mesh = "hex" /\ bg.material = "border"
                        /\ fill.mesh = "smaller_hex" /\ fill.material = "grass"
                        /\ bg.translation[3] < fill.translation[3]

\* every visual of load_chunk(b) carries its tile's coordinate and b
BothVisualsTagged(b) ==
    LET ents == load_chunk(b[1], b[2])
    IN  \A t \in ChunkTiles(b) :
          \A e \in VisualsAt(ents, t) : e.hex_tile = t /\ e.chunk = b

\* every visual of load_chunk(b) carries b; the inset fill carries its
\* tile's coordinate and the background cell carries none
FillTaggedWithTile(b) ==
    LET ents == load_chunk(b[1], b[2])
    IN  \A t \in ChunkTiles(b) :
          \A e \in VisualsAt(ents, t) :
              /\ e.chunk = b
              /\ e.mesh = "smaller_hex" => e.hex_tile = t
              /\ e.mesh = "hex" => e.hex_tile = NoHexTile

\* The three facts above for every chunk index a pass can touch
VisualsTable ==
    { <<b, TwoVisualsPerTile(b), BothVisualsTagged(b), FillTaggedWithTile(b)>> :
        b \in ChunkUniverse }

VisualsRow(b) == CHOOSE row \in VisualsTable : row[1] = b

\* The chunks whose load_chunk call is queued or whose entities are live
Materialized == BagToSet(commands.spawn) \cup BagToSet(entities)

\* C16 as stated: materializing a chunk (cq, cr) places exactly two visuals
\* (a background cell and an inset fill) for each of its CHUNK_SIZE x
\* CHUNK_SIZE tiles, and each of the two is tagged with both the tile
\* coordinate (q, r) and the chunk index (cq, cr).
C16_BothVisualsCarryTile ==
    \A b \in Materialized : VisualsRow(b)[2] /\ VisualsRow(b)[3]

\* C16, amended: materializing a chunk (cq, cr) places exactly two visuals
\* for each of its tiles, each tagged with the chunk index (cq, cr); the
\* inset fill is also tagged with the tile coordinate (q, r), the
\* background cell is not.
C16_FillCarriesTile ==
    \A b \in Materialized : VisualsRow(b)[2] /\ VisualsRow(b)[4]

\* a pass has just materialized a chunk with a negative index
C16_Witness ==
    /\ pass.ran
    /\ <<-3, 0>> \in pass.to_load
    /\ <<-3, 0>> \in BagToSet(commands.spawn)

\* C17: the mesh and material handles are created exactly once for the
\* whole session: once startup has created the two meshes and the two
\* materials, no tick creates another mesh or material, whether or not it
\* loads a chunk.
C17_AssetsCreatedOnce ==
    /\ phase = "Update" => assets = [meshes |-> 2, materials |-> 2]
    /\ (phase = "Startup" /\ "load_initial_chunks" \in done) =>
          assets = [meshes |-> 2, materials |-> 2]

\* C18: a manage_chunks pass in which the player's chunk is the one the
\* loaded set was last computed around (by the previous pass, or by
\* load_initial_chunks before the first pass), and so every pass with no
\* move accepted since the previous one and every pass after moves that
\* stay inside one chunk, has an empty diff: it despawns no entity, spawns
\* no entity and leaves LoadedChunks.chunks unchanged.
C18_SameChunkEmptyDiff ==
    (pass.ran /\ (pass.prev_chunk = pass.player_chunk \/ ~pass.after_move)) =>
        /\ pass.to_unload = {}
        /\ pass.to_load = {}
        /\ loaded_chunks = pass.loaded_before
        /\ commands.spawn = EmptyBag
        /\ commands.despawn = EmptyBag

\* a pass after a move that stayed inside chunk (0, -1)
C18_Witness ==
    /\ pass.ran /\ pass.after_move
    /\ pass.prev_chunk = <<0, -1>>
    /\ pass.player_chunk = <<0, -1>>
    /\ commands = NoCommands

\* For each chunk index b: the tiles load_chunk(b) enumerates, read off the
\* HexTile components of the entities it spawns
TileTable ==
    { <<b, { e.hex_tile : e \in { x \in load_chunk(b[1], b[2]) :
                                    x.hex_tile # NoHexTile } }>> :
        b \in ChunkUniverse }

TilesOf(b) == (CHOOSE row \in TileTable : row[1] = b)[2]

\* C19: every tile load_chunk(cq, cr) enumerates maps back to (cq, cr)
\* under the chunk derivation of manage_chunks, for negative indices too;
\* the player's tile is enumerated by exactly one chunk, its derived chunk;
\* and after every pass that chunk is in LoadedChunks.chunks, and at the
\* end of the tick its entities, the player's tile among them, are live.
C19_TilesMapBack ==
    /\ \A b \in Materialized :
          /\ Cardinality(TilesOf(b)) = CHUNK_SIZE * CHUNK_SIZE
          /\ \A t \in TilesOf(b) : PlayerChunk(t) = b
    /\ { b \in ChunkUniverse : player_pos \in TilesOf(b) } = { PlayerChunk(player_pos) }
    /\ pass.ran =>
          /\ pass.player_chunk \in loaded_chunks
          /\ player_pos \in TilesOf(pass.player_chunk)
    /\ (TickBoundary /\ HasPlayer /\ ~moved_since_pass) =>
          \E b \in BagToSet(entities) : player_pos \in TilesOf(b)

\* a pass for a player on the tile (-8, -15), the corner of chunk (-2, -3)
C19_Witness ==
    /\ pass.ran
    /\ player_pos = <<-8, -15>>
    /\ pass.player_chunk = <<-2, -3>>
    /\ player_pos \in TilesOf(<<-2, -3>>)
    /\ <<-2, -3>> \in BagToSet(entities)

\* The player entities: the spawned one and any whose spawn is queued
PlayerEntities ==
    { players[i] : i \in 1..Len(players) }
        \cup { commands.spawn_player[i] : i \in 1..Len(commands.spawn_player) }

\* C20: in every reachable state target_position is hex_to_world of the
\* logical tile (PlayerPosition), at the player's height, and whenever
\* is_moving is false the transform's translation equals target_position:
\* logical and visual position differ only while an animation is in
\* progress.
C20_TargetIsLogicalTile ==
    \A player \in PlayerEntities :
        /\ player.movement.target_position =
               Vec3(hex_to_world(player_pos[1], player_pos[2]), 10)
        /\ ~player.movement.is_moving =>
               player.transform = player.movement.target_position

\* the player is idle on (-1, -1) after an animation that ended there
C20_Witness ==
    /\ HasPlayer /\ ~Movement.is_moving
    /\ player_pos = <<-1, -1>>
    /\ players[1].transform = Vec3(hex_to_world(-1, -1), 10)
    /\ Movement.start_position # Movement.target_position

====
